---- MODULE Spec2Model ----
(***************************************************************************)
(* Model of the validation-error example generator of the Lab System       *)
(* backend (src/src/middleware/utils/create-error-schema.ts):              *)
(*   generateBadData       - synthesises a value meant to fail a schema    *)
(*   generateErrorExamples - validates it and harvests up to 3 issues      *)
(*   getDefaultMessage     - default message per issue code                *)
(* A schema is the record the code reads through schema._def (typeName,    *)
(* checks, type, shape, innerType); a JavaScript value is a tagged record. *)
(*                                                                         *)
(* and of the create-user route POST /users (src/unnamed/part_006,         *)
(* src/unnamed/part_003, src/src/db/index.ts):                             *)
(*   userInsertSchema  - the rules a request body must meet                *)
(*   defaultHook       - answers a failed validation with 422              *)
(*   CreateUserHandler - hash the password, insert the row, answer 201,    *)
(*                       or answer 500 when a step fails                   *)
(*   onError           - the application's answer to an error thrown by a  *)
(*                       handler or middleware                             *)
(* Requests are processes: each await of the handler is a point where      *)
(* other requests may run.                                                 *)
(***************************************************************************)
EXTENDS Integers, Sequences, FiniteSets, TLC

VARIABLES
  schema,      \* the schema of the last call (NoSchema before any call)
  validator,   \* the safeParse paired with it
  badData,     \* what generateBadData returned (or threw) in the last call
  parsed,      \* what safeParse returned (or threw); NotCalled if not reached
  outcome,     \* how generateErrorExamples ended: a returned list, or a throw
  warnings,    \* console.warn calls made by the last call
  phase,       \* "idle" | "called" | "repeated"
  badData2,    \* generateBadData on the same schema, called again
  outcome2,    \* outcome of the repeated call on the same schema
  calls,       \* how many times generateErrorExamples was called so far
  users,       \* the rows of table users
  pc,          \* per request: where its processing stands
  request,     \* per request: the JSON body and the environment of its context
  hashedPassword, \* per request: the handler's local of that name
  queryResult, \* per request: how the insert statement settled
  response,    \* per request: the response sent
  log,         \* per request: the steps taken so far, in order
  thrown,      \* the error last handed to onError, with its context
  handled      \* what onError returned for it

extractorVars ==
  <<schema, validator, badData, parsed, outcome, warnings, phase, badData2, outcome2, calls>>
usersVars == <<users, pc, request, hashedPassword, queryResult, response, log>>
errorVars == <<thrown, handled>>
vars ==
  <<schema, validator, badData, parsed, outcome, warnings, phase, badData2, outcome2, calls,
    users, pc, request, hashedPassword, queryResult, response, log, thrown, handled>>

----------------------------------------------------------------------------
(* Bounds of the model                                                     *)

MaxChecks == 4     \* checks declared on one String / Number node
MaxFields == 4     \* fields declared on one generated Object node
MaxIssues == 4     \* issues in one stubbed validator failure
MaxWrap == 2       \* nested Array / Optional / Nullable wrappers
MaxRequests == 2   \* POST /users requests, possibly in flight together
MaxCalls == 3      \* calls of generateErrorExamples in one run

(* Program constants                                                       *)

MaxExamples == 3   \* issues.slice(0, 3)
MaxProps == 3      \* if (index < 3)
MinPasswordLength == 8          \* z.string().min(8)
BcryptRounds == 10              \* bcrypt.hash(validatedBody.password, 10)
CREATED == 201                  \* httpStatusCodes.CREATED
UNPROCESSABLE_ENTITY == 422     \* UNPROCESSABLE_ENTITY
INTERNAL_SERVER_ERROR == 500    \* httpStatusCodes.INTERNAL_SERVER_ERROR

----------------------------------------------------------------------------
(* JavaScript values                                                       *)

StrV(chars) == [t |-> "string", s |-> chars]
NumV(k) == [t |-> "number", n |-> k, half |-> FALSE]
\* the literal 1.5: n + 1/2
OneAndHalf == [t |-> "number", n |-> 1, half |-> TRUE]
NullV == [t |-> "null"]
UndefinedV == [t |-> "undefined"]
ArrV(items) == [t |-> "array", items |-> items]
\* an object: its own keys in property order, and their values
ObjV(keys, vals) == [t |-> "object", keys |-> keys, vals |-> vals]
Throw(e) == [t |-> "throw", error |-> e]
IsThrow(v) == v.t = "throw"

INVALID_EMAIL == <<"i", "n", "v", "a", "l", "i", "d", "-", "e", "m", "a", "i", "l">>
INVALID_URL == <<"i", "n", "v", "a", "l", "i", "d", "-", "u", "r", "l">>
INVALID_UUID == <<"i", "n", "v", "a", "l", "i", "d", "-", "u", "u", "i", "d">>
NOT_A_NUMBER == <<"n", "o", "t", "-", "a", "-", "n", "u", "m", "b", "e", "r">>
NOT_BOOLEAN == <<"n", "o", "t", "-", "b", "o", "o", "l", "e", "a", "n">>
INVALID_ENUM_VALUE == <<"i", "n", "v", "a", "l", "i", "d", "-", "e", "n", "u", "m", "-", "v", "a", "l", "u", "e">>

\* 'a'.repeat(count): RangeError for a negative count
RepeatA(count) ==
  IF count < 0 THEN Throw("RangeError") ELSE StrV([i \in 1..count |-> "a"])

\* path segments: string | number | symbol
SegStr(s) == [k |-> "string", s |-> s]
SegNum(i) == [k |-> "number", n |-> i]
SegSym(d) == [k |-> "symbol", d |-> d]

----------------------------------------------------------------------------
(* Schema nodes, as read through schema._def                               *)

ZodString(checks) == [typeName |-> "ZodString", checks |-> checks]
ZodNumber(checks) == [typeName |-> "ZodNumber", checks |-> checks]
ZodBoolean == [typeName |-> "ZodBoolean"]
ZodEnum(values) == [typeName |-> "ZodEnum", values |-> values]
ZodArray(type) == [typeName |-> "ZodArray", type |-> type]
\* fields: the declared properties, <<[key, schema], ...>>, in declaration order
ZodObject(fields) == [typeName |-> "ZodObject", fields |-> fields]
ZodOptional(inner) == [typeName |-> "ZodOptional", innerType |-> inner]
ZodNullable(inner) == [typeName |-> "ZodNullable", innerType |-> inner]
ZodUnion(options) == [typeName |-> "ZodUnion", options |-> options]
ZodAny == [typeName |-> "ZodAny"]
ZodDate == [typeName |-> "ZodDate"]
\* kinds generateBadData has no case for although they hold a child schema
ZodEffects(inner) == [typeName |-> "ZodEffects", schema |-> inner]
ZodDefault(inner) == [typeName |-> "ZodDefault", innerType |-> inner]
\* a schema reference that is undefined: reading its _def throws
UndefinedSchema == [typeName |-> "undefined"]
Field(key, s) == [key |-> key, schema |-> s]

\* The property keys of the model that are canonical array indices, with
\* their numeric value; every other key is an ordinary string key.
ArrayIndexKeys == ("0" :> 0) @@ ("1" :> 1) @@ ("2" :> 2)
IsArrayIndex(key) == key \in DOMAIN ArrayIndexKeys
IndexLess(a, b) == ArrayIndexKeys[a] < ArrayIndexKeys[b]

\* Object.keys(shape): array-index keys ascending, then the string keys in
\* the order they were declared
ObjectKeys(fields) ==
  LET declared == [i \in 1..Len(fields) |-> fields[i].key]
  IN SortSeq(SelectSeq(declared, IsArrayIndex), IndexLess)
       \o SelectSeq(declared, LAMBDA key : ~IsArrayIndex(key))

\* shape[key]
ShapeAt(fields, key) ==
  fields[CHOOSE i \in 1..Len(fields) : fields[i].key = key].schema

\* for (const check of def.checks) on a ZodString: the first check that returns
RECURSIVE StringChecks(_, _)

\* faulty variant: the email case returns a well-formed address
StringChecks_ValidEmail(checks, i) ==
  IF i > Len(checks) THEN NumV(123)
  ELSE LET check == checks[i]
       IN CASE check.kind = "email" -> StrV(<<"a", "@", "b", ".", "c", "o">>)
            [] check.kind = "url" -> StrV(INVALID_URL)
            [] check.kind = "uuid" -> StrV(INVALID_UUID)
            [] check.kind = "min" -> StrV(<<>>)
            [] check.kind = "max" -> RepeatA(check.value + 1)
            [] OTHER -> StringChecks(checks, i + 1)

\* faulty variant: a max check gives a string of exactly the maximum length
StringChecks_MaxExact(checks, i) ==
  IF i > Len(checks) THEN NumV(123)
  ELSE LET check == checks[i]
       IN CASE check.kind = "email" -> StrV(INVALID_EMAIL)
            [] check.kind = "url" -> StrV(INVALID_URL)
            [] check.kind = "uuid" -> StrV(INVALID_UUID)
            [] check.kind = "min" -> StrV(<<>>)
            [] check.kind = "max" -> RepeatA(check.value)
            [] OTHER -> StringChecks(checks, i + 1)

\* faulty variant: without a recognised check the empty string is returned
StringChecks_EmptyDefault(checks, i) ==
  IF i > Len(checks) THEN StrV(<<>>)
  ELSE LET check == checks[i]
       IN CASE check.kind = "email" -> StrV(INVALID_EMAIL)
            [] check.kind = "url" -> StrV(INVALID_URL)
            [] check.kind = "uuid" -> StrV(INVALID_UUID)
            [] check.kind = "min" -> StrV(<<>>)
            [] check.kind = "max" -> RepeatA(check.value + 1)
            [] OTHER -> StringChecks(checks, i + 1)

StringChecks(checks, i) ==
  IF i > Len(checks) THEN NumV(123)
  ELSE LET check == checks[i]
       IN CASE check.kind = "email" -> StrV(INVALID_EMAIL)
            [] check.kind = "url" -> StrV(INVALID_URL)
            [] check.kind = "uuid" -> StrV(INVALID_UUID)
            [] check.kind = "min" -> StrV(<<>>)
            [] check.kind = "max" -> RepeatA(check.value + 1)
            [] OTHER -> StringChecks(checks, i + 1)

\* for (const check of def.checks) on a ZodNumber
RECURSIVE NumberChecks(_, _)

\* faulty variant: the min case returns the bound itself
NumberChecks_MinItself(checks, i) ==
  IF i > Len(checks) THEN StrV(NOT_A_NUMBER)
  ELSE LET check == checks[i]
       IN CASE check.kind = "min" -> NumV(check.value)
            [] check.kind = "max" -> NumV(check.value + 1)
            [] check.kind = "int" -> OneAndHalf
            [] OTHER -> NumberChecks(checks, i + 1)

\* faulty variant: a max check gives way to the checks declared after it
NumberChecks_MaxYields(checks, i) ==
  IF i > Len(checks) THEN StrV(NOT_A_NUMBER)
  ELSE LET check == checks[i]
       IN CASE check.kind = "min" -> NumV(check.value - 1)
            [] check.kind = "max" ->
                 IF i < Len(checks) THEN NumberChecks(checks, i + 1)
                 ELSE NumV(check.value + 1)
            [] check.kind = "int" -> OneAndHalf
            [] OTHER -> NumberChecks(checks, i + 1)

NumberChecks(checks, i) ==
  IF i > Len(checks) THEN StrV(NOT_A_NUMBER)
  ELSE LET check == checks[i]
       IN CASE check.kind = "min" -> NumV(check.value - 1)
            [] check.kind = "max" -> NumV(check.value + 1)
            [] check.kind = "int" -> OneAndHalf
            [] OTHER -> NumberChecks(checks, i + 1)

RECURSIVE generateBadData(_, _)
RECURSIVE ObjectProps(_, _, _, _, _)

\* Object.keys(shape).forEach((key, index) => { if (index < 3) ... }): the
\* object built from keys[index..]; a throw in a property ends the loop
\* faulty variant: the property at index 0 is left out
ObjectProps_SkipsFirst(fields, keys, index, path, acc) ==
  IF index > Len(keys) THEN acc
  ELSE IF index - 1 < MaxProps /\ index - 1 > 0
    THEN LET v == generateBadData(ShapeAt(fields, keys[index]),
                                  Append(path, SegStr(keys[index])))
         IN IF IsThrow(v) THEN v
            ELSE ObjectProps(fields, keys, index + 1, path,
                             ObjV(Append(acc.keys, keys[index]), Append(acc.vals, v)))
    ELSE ObjectProps(fields, keys, index + 1, path, acc)

ObjectProps(fields, keys, index, path, acc) ==
  IF index > Len(keys) THEN acc
  ELSE IF index - 1 < MaxProps
    THEN LET v == generateBadData(ShapeAt(fields, keys[index]),
                                  Append(path, SegStr(keys[index])))
         IN IF IsThrow(v) THEN v
            ELSE ObjectProps(fields, keys, index + 1, path,
                             ObjV(Append(acc.keys, keys[index]), Append(acc.vals, v)))
    ELSE ObjectProps(fields, keys, index + 1, path, acc)

\* faulty variant: an array schema gives the empty array
generateBadData_EmptyArray(s, path) ==
  IF s = UndefinedSchema THEN Throw("TypeError")
  ELSE CASE s.typeName = "ZodString" -> StringChecks(s.checks, 1)
         [] s.typeName = "ZodNumber" -> NumberChecks(s.checks, 1)
         [] s.typeName = "ZodBoolean" -> StrV(NOT_BOOLEAN)
         [] s.typeName = "ZodEnum" -> StrV(INVALID_ENUM_VALUE)
         [] s.typeName = "ZodArray" ->
              LET item == generateBadData(s.type, Append(path, SegNum(0)))
              IN IF IsThrow(item) THEN item ELSE ArrV(<<>>)
         [] s.typeName = "ZodObject" ->
              ObjectProps(s.fields, ObjectKeys(s.fields), 1, path, ObjV(<<>>, <<>>))
         [] s.typeName = "ZodOptional" -> generateBadData(s.innerType, path)
         [] s.typeName = "ZodNullable" -> generateBadData(s.innerType, path)
         [] s.typeName = "ZodUnion" ->
              ObjV(<<"invalidUnionValue">>, <<[t |-> "boolean", b |-> TRUE]>>)
         [] OTHER -> NullV

\* faulty variant: an optional gives undefined, a nullable null
generateBadData_OptionalAbsent(s, path) ==
  IF s = UndefinedSchema THEN Throw("TypeError")
  ELSE CASE s.typeName = "ZodString" -> StringChecks(s.checks, 1)
         [] s.typeName = "ZodNumber" -> NumberChecks(s.checks, 1)
         [] s.typeName = "ZodBoolean" -> StrV(NOT_BOOLEAN)
         [] s.typeName = "ZodEnum" -> StrV(INVALID_ENUM_VALUE)
         [] s.typeName = "ZodArray" ->
              LET item == generateBadData(s.type, Append(path, SegNum(0)))
              IN IF IsThrow(item) THEN item ELSE ArrV(<<item>>)
         [] s.typeName = "ZodObject" ->
              ObjectProps(s.fields, ObjectKeys(s.fields), 1, path, ObjV(<<>>, <<>>))
         [] s.typeName = "ZodOptional" -> UndefinedV
         [] s.typeName = "ZodNullable" -> NullV
         [] s.typeName = "ZodUnion" ->
              ObjV(<<"invalidUnionValue">>, <<[t |-> "boolean", b |-> TRUE]>>)
         [] OTHER -> NullV

\* faulty variant: a kind without a case passes to its inner schema
generateBadData_Descends(s, path) ==
  IF s = UndefinedSchema THEN Throw("TypeError")
  ELSE CASE s.typeName = "ZodString" -> StringChecks(s.checks, 1)
         [] s.typeName = "ZodNumber" -> NumberChecks(s.checks, 1)
         [] s.typeName = "ZodBoolean" -> StrV(NOT_BOOLEAN)
         [] s.typeName = "ZodEnum" -> StrV(INVALID_ENUM_VALUE)
         [] s.typeName = "ZodArray" ->
              LET item == generateBadData(s.type, Append(path, SegNum(0)))
              IN IF IsThrow(item) THEN item ELSE ArrV(<<item>>)
         [] s.typeName = "ZodObject" ->
              ObjectProps(s.fields, ObjectKeys(s.fields), 1, path, ObjV(<<>>, <<>>))
         [] s.typeName = "ZodOptional" -> generateBadData(s.innerType, path)
         [] s.typeName = "ZodNullable" -> generateBadData(s.innerType, path)
         [] s.typeName = "ZodUnion" ->
              ObjV(<<"invalidUnionValue">>, <<[t |-> "boolean", b |-> TRUE]>>)
         [] OTHER ->
              IF "innerType" \in DOMAIN s THEN generateBadData(s.innerType, path)
              ELSE IF "schema" \in DOMAIN s THEN generateBadData(s.schema, path)
              ELSE NullV

generateBadData(s, path) ==
  IF s = UndefinedSchema THEN Throw("TypeError")
  ELSE CASE s.typeName = "ZodString" -> StringChecks(s.checks, 1)
         [] s.typeName = "ZodNumber" -> NumberChecks(s.checks, 1)
         [] s.typeName = "ZodBoolean" -> StrV(NOT_BOOLEAN)
         [] s.typeName = "ZodEnum" -> StrV(INVALID_ENUM_VALUE)
         [] s.typeName = "ZodArray" ->
              LET item == generateBadData(s.type, Append(path, SegNum(0)))
              IN IF IsThrow(item) THEN item ELSE ArrV(<<item>>)
         [] s.typeName = "ZodObject" ->
              ObjectProps(s.fields, ObjectKeys(s.fields), 1, path, ObjV(<<>>, <<>>))
         [] s.typeName = "ZodOptional" -> generateBadData(s.innerType, path)
         [] s.typeName = "ZodNullable" -> generateBadData(s.innerType, path)
         [] s.typeName = "ZodUnion" ->
              ObjV(<<"invalidUnionValue">>, <<[t |-> "boolean", b |-> TRUE]>>)
         [] OTHER -> NullV

\* The calls of generateBadData that one call makes, itself included, in
\* the order they are made. A call is named by the place of its schema in
\* the tree: the steps from the root, def.type, def.innerType or shape[key].
ElementOf == [child |-> "type"]
InnerOf == [child |-> "innerType"]
FieldOf(key) == [child |-> "shape", key |-> key]

RECURSIVE Calls(_, _)
RECURSIVE CallsProps(_, _, _, _)
RECURSIVE CallsProps_NoLimit(_, _, _, _)

\* faulty variant: forEach calls generateBadData for every key
CallsProps_NoLimit(fields, keys, index, pos) ==
  IF index > Len(keys) THEN <<>>
  ELSE LET property == ShapeAt(fields, keys[index])
           at == Append(pos, FieldOf(keys[index]))
       IN IF IsThrow(generateBadData(property, <<>>)) THEN Calls(property, at)
          ELSE Calls(property, at) \o CallsProps_NoLimit(fields, keys, index + 1, pos)

\* Object.keys(shape).forEach((key, index) => ...): the calls made for the
\* keys from index on; a call that throws ends the loop
CallsProps(fields, keys, index, pos) ==
  IF index > Len(keys) THEN <<>>
  ELSE IF index - 1 < MaxProps
    THEN LET property == ShapeAt(fields, keys[index])
             at == Append(pos, FieldOf(keys[index]))
         IN IF IsThrow(generateBadData(property, <<>>)) THEN Calls(property, at)
            ELSE Calls(property, at) \o CallsProps(fields, keys, index + 1, pos)
    ELSE CallsProps(fields, keys, index + 1, pos)

Calls(s, pos) ==
  IF s = UndefinedSchema THEN <<pos>>
  ELSE CASE s.typeName = "ZodArray" -> <<pos>> \o Calls(s.type, Append(pos, ElementOf))
         [] s.typeName = "ZodObject" ->
              <<pos>> \o CallsProps(s.fields, ObjectKeys(s.fields), 1, pos)
         [] s.typeName = "ZodOptional" -> <<pos>> \o Calls(s.innerType, Append(pos, InnerOf))
         [] s.typeName = "ZodNullable" -> <<pos>> \o Calls(s.innerType, Append(pos, InnerOf))
         [] OTHER -> <<pos>>

----------------------------------------------------------------------------
(* Validator results: what schema.safeParse(badData) hands back            *)

Success == [t |-> "result", success |-> TRUE]
\* { success: false, error: { issues } }
Failure(issues) == [t |-> "result", success |-> FALSE, issues |-> issues]
\* { success: false } with no error object: reading error.issues throws
FailureNoError == [t |-> "result", success |-> FALSE]
NotCalled == [t |-> "not called"]

Issue(code, path, message) == [code |-> code, path |-> path, message |-> message]

Min(a, b) == IF a < b THEN a ELSE b
\* faulty variant: no limit on the issues taken
Slice_NoLimit(seq, end) == seq

\* Array.prototype.slice(0, end)
Slice(seq, end) == SubSeq(seq, 1, Min(end, Len(seq)))

\* the literal `messages` of getDefaultMessage
messages ==
  ("invalid_type" :> "Invalid type provided")
  @@ ("invalid_string" :> "Invalid string format")
  @@ ("too_small" :> "Value is too small")
  @@ ("too_big" :> "Value is too large")
  @@ ("invalid_enum_value" :> "Invalid enum value")
  @@ ("unrecognized_keys" :> "Unrecognized keys in object")
  @@ ("required_error" :> "Required field is missing")

\* Properties every object literal inherits from Object.prototype: functions,
\* written here by the text they print as
ObjectPrototype ==
  ("constructor" :> "function Object() { [native code] }")
  @@ ("toString" :> "function toString() { [native code] }")
  @@ ("valueOf" :> "function valueOf() { [native code] }")
  @@ ("hasOwnProperty" :> "function hasOwnProperty() { [native code] }")

\* obj[key] on an object literal: own property, else inherited, else
\* undefined (the falsy "")
GetProperty(own, key) ==
  IF key \in DOMAIN own THEN own[key]
  ELSE IF key \in DOMAIN ObjectPrototype THEN ObjectPrototype[key]
  ELSE ""

Truthy(str) == str # ""

\* messages[code] || 'Validation error'
getDefaultMessage(code) ==
  IF Truthy(GetProperty(messages, code)) THEN GetProperty(messages, code)
  ELSE "Validation error"

\* faulty variant: every segment is stringified
MapSegment_AlwaysString(p) ==
  IF p.k = "symbol" THEN SegStr("Symbol(" \o p.d \o ")")
  ELSE IF p.k = "number" THEN SegStr(ToString(p.n))
  ELSE p

\* p => typeof p === 'symbol' ? p.toString() : p
MapSegment(p) ==
  IF p.k = "symbol" THEN SegStr("Symbol(" \o p.d \o ")") ELSE p

\* issue.message || getDefaultMessage(issue.code); a missing message is
\* undefined, falsy like ''
IssueMessage(issue) ==
  IF "message" \in DOMAIN issue /\ Truthy(issue.message) THEN issue.message
  ELSE getDefaultMessage(issue.code)

\* the arrow function of .map(issue => ...)
MapIssue(issue) ==
  [code |-> issue.code,
   path |-> [i \in 1..Len(issue.path) |-> MapSegment(issue.path[i])],
   message |-> IssueMessage(issue)]

\* issue.path.map throws a TypeError when the issue has no path
MapIssueThrows(issue) == "path" \notin DOMAIN issue

\* issues.slice(0, 3).map(...)
MapIssues(issues) ==
  LET taken == Slice(issues, MaxExamples)
  IN IF \E i \in 1..Len(taken) : MapIssueThrows(taken[i]) THEN Throw("TypeError")
     ELSE ArrV([i \in 1..Len(taken) |-> MapIssue(taken[i])])

\* the fallback example list
FallbackExamples ==
  << [code |-> "invalid_type",
      path |-> <<SegStr("field")>>,
      message |-> "Expected string, received number"] >>

----------------------------------------------------------------------------
(* The validation library behind schema.safeParse: which issues it reports *)
(* for a value, per node kind, in the order it reports them                *)

Letters ==
  {"a", "b", "c", "d", "e", "f", "g", "h", "i", "j", "k", "l", "m",
   "n", "o", "p", "q", "r", "s", "t", "u", "v", "w", "x", "y", "z"}
Digits == {"0", "1", "2", "3", "4", "5", "6", "7", "8", "9"}

\* local@domain.tld: one '@' after a non-empty local part, a '.' inside the
\* domain with at least two letters after it
IsEmail(chars) ==
  \E at \in 2..Len(chars) :
    /\ chars[at] = "@"
    /\ \A j \in 1..Len(chars) : j # at => chars[j] # "@"
    /\ \A j \in 1..(at - 1) : chars[j] \in Letters \cup Digits \cup {".", "_", "+", "-"}
    /\ \E dot \in (at + 2)..(Len(chars) - 2) :
         /\ chars[dot] = "."
         /\ \A j \in (dot + 1)..Len(chars) : chars[j] \in Letters
         /\ \A j \in (at + 1)..(dot - 1) : chars[j] \in Letters \cup Digits \cup {".", "-"}

\* new URL(data) succeeds: a scheme of letters followed by ':'
IsUrl(chars) ==
  \E colon \in 2..Len(chars) :
    /\ chars[colon] = ":"
    /\ \A j \in 1..(colon - 1) : chars[j] \in Letters

\* 8-4-4-4-12 hexadecimal digits
IsUuid(chars) ==
  /\ Len(chars) = 36
  /\ \A j \in 1..36 :
       IF j \in {9, 14, 19, 24} THEN chars[j] = "-"
       ELSE chars[j] \in Digits \cup {"a", "b", "c", "d", "e", "f"}

\* the pattern of the model's regex check: the string holds a digit
MatchesRegex(chars) == \E j \in 1..Len(chars) : chars[j] \in Digits

InvalidType(expected, data, path) ==
  << Issue("invalid_type", path,
           IF data.t = "undefined" THEN "Required"
           ELSE "Expected " \o expected \o ", received " \o data.t) >>

StringCheckIssues(check, chars, path) ==
  CASE check.kind = "email" ->
         IF IsEmail(chars) THEN <<>> ELSE <<Issue("invalid_string", path, "Invalid email")>>
    [] check.kind = "url" ->
         IF IsUrl(chars) THEN <<>> ELSE <<Issue("invalid_string", path, "Invalid url")>>
    [] check.kind = "uuid" ->
         IF IsUuid(chars) THEN <<>> ELSE <<Issue("invalid_string", path, "Invalid uuid")>>
    [] check.kind = "regex" ->
         IF MatchesRegex(chars) THEN <<>> ELSE <<Issue("invalid_string", path, "Invalid")>>
    [] check.kind = "min" ->
         IF Len(chars) < check.value
         THEN <<Issue("too_small", path, "String is too short")>> ELSE <<>>
    [] check.kind = "max" ->
         IF Len(chars) > check.value
         THEN <<Issue("too_big", path, "String is too long")>> ELSE <<>>
    [] OTHER -> <<>>

\* v < bound, for v = n or n + 1/2
NumLess(v, bound) == v.n < bound
NumLessEq(v, bound) == IF v.half THEN v.n < bound ELSE v.n <= bound
NumGreater(v, bound) == IF v.half THEN v.n >= bound ELSE v.n > bound
NumGreaterEq(v, bound) == v.n >= bound

NumberCheckIssues(check, v, path) ==
  CASE check.kind = "int" ->
         IF v.half THEN <<Issue("invalid_type", path, "Expected integer, received float")>>
         ELSE <<>>
    [] check.kind = "min" ->
         IF (IF check.inclusive THEN NumLess(v, check.value) ELSE NumLessEq(v, check.value))
         THEN <<Issue("too_small", path, "Number is too small")>> ELSE <<>>
    [] check.kind = "max" ->
         IF (IF check.inclusive THEN NumGreater(v, check.value)
             ELSE NumGreaterEq(v, check.value))
         THEN <<Issue("too_big", path, "Number is too large")>> ELSE <<>>
    [] check.kind = "multipleOf" ->
         IF v.half \/ v.n % check.value # 0
         THEN <<Issue("not_multiple_of", path, "Number is not a multiple")>> ELSE <<>>
    [] OTHER -> <<>>

\* every check runs, in declaration order; each failing one adds its issue
RECURSIVE StringIssues(_, _, _, _)
StringIssues(checks, i, chars, path) ==
  IF i > Len(checks) THEN <<>>
  ELSE StringCheckIssues(checks[i], chars, path) \o StringIssues(checks, i + 1, chars, path)

RECURSIVE NumberIssues(_, _, _, _)
NumberIssues(checks, i, v, path) ==
  IF i > Len(checks) THEN <<>>
  ELSE NumberCheckIssues(checks[i], v, path) \o NumberIssues(checks, i + 1, v, path)

\* data[key], undefined when the object has no such key
ValueAt(data, key) ==
  IF \E i \in 1..Len(data.keys) : data.keys[i] = key
  THEN data.vals[CHOOSE i \in 1..Len(data.keys) : data.keys[i] = key]
  ELSE UndefinedV

RECURSIVE ZodIssues(_, _, _)
RECURSIVE ZodItems(_, _, _, _)
RECURSIVE ZodProps(_, _, _, _, _)

ZodItems(type, items, i, path) ==
  IF i > Len(items) THEN <<>>
  ELSE ZodIssues(type, items[i], Append(path, SegNum(i - 1)))
         \o ZodItems(type, items, i + 1, path)

ZodProps(fields, keys, i, data, path) ==
  IF i > Len(keys) THEN <<>>
  ELSE ZodIssues(ShapeAt(fields, keys[i]), ValueAt(data, keys[i]),
                 Append(path, SegStr(keys[i])))
         \o ZodProps(fields, keys, i + 1, data, path)

ZodIssues(s, data, path) ==
  CASE s.typeName = "ZodString" ->
         IF data.t # "string" THEN InvalidType("string", data, path)
         ELSE StringIssues(s.checks, 1, data.s, path)
    [] s.typeName = "ZodNumber" ->
         IF data.t # "number" THEN InvalidType("number", data, path)
         ELSE NumberIssues(s.checks, 1, data, path)
    [] s.typeName = "ZodBoolean" ->
         IF data.t # "boolean" THEN InvalidType("boolean", data, path) ELSE <<>>
    [] s.typeName = "ZodEnum" ->
         IF data.t # "string" THEN InvalidType("string", data, path)
         ELSE IF data.s \in s.values THEN <<>>
         ELSE <<Issue("invalid_enum_value", path, "Invalid enum value")>>
    [] s.typeName = "ZodArray" ->
         IF data.t # "array" THEN InvalidType("array", data, path)
         ELSE ZodItems(s.type, data.items, 1, path)
    [] s.typeName = "ZodObject" ->
         IF data.t # "object" THEN InvalidType("object", data, path)
         ELSE ZodProps(s.fields, ObjectKeys(s.fields), 1, data, path)
    [] s.typeName = "ZodOptional" ->
         IF data.t = "undefined" THEN <<>> ELSE ZodIssues(s.innerType, data, path)
    [] s.typeName = "ZodNullable" ->
         IF data.t = "null" THEN <<>> ELSE ZodIssues(s.innerType, data, path)
    [] s.typeName = "ZodUnion" ->
         IF \E i \in 1..Len(s.options) : ZodIssues(s.options[i], data, path) = <<>>
         THEN <<>>
         ELSE <<Issue("invalid_union", path, "Invalid input")>>
    [] s.typeName = "ZodAny" -> <<>>
    [] s.typeName = "ZodEffects" -> ZodIssues(s.schema, data, path)
    [] s.typeName = "ZodDefault" ->
         IF data.t = "undefined" THEN <<>> ELSE ZodIssues(s.innerType, data, path)
    [] OTHER -> InvalidType("date", data, path)

ZodSafeParse(s, data) ==
  IF ZodIssues(s, data, <<>>) = <<>> THEN Success
  ELSE Failure(ZodIssues(s, data, <<>>))

\* a validator is the library's, or a stub that answers every value alike
ZodValidator == [kind |-> "zod"]
StubValidator(result) == [kind |-> "stub", result |-> result]

\* schema.safeParse(badData)
safeParse(s, v, data) ==
  IF v.kind = "zod" THEN ZodSafeParse(s, data) ELSE v.result

----------------------------------------------------------------------------
(* generateErrorExamples                                                   *)

Return(list) == [kind |-> "return", value |-> list]
Throws(e) == [kind |-> "throw", error |-> e]
FallThrough == [kind |-> "fallthrough"]

\* The body of the try block: a return of the mapped issues, an exception,
\* or falling through when the validator reports success.
TryBlock(s, v) ==
  LET data == generateBadData(s, <<>>)
  IN IF IsThrow(data) THEN Throws(data.error)
     ELSE LET result == safeParse(s, v, data)
          IN IF IsThrow(result) THEN Throws(result.error)
             ELSE IF result.t = "undefined" THEN Throws("TypeError")
             ELSE IF result.success THEN FallThrough
             ELSE IF "issues" \notin DOMAIN result THEN Throws("TypeError")
             ELSE IF IsThrow(MapIssues(result.issues)) THEN Throws("TypeError")
             ELSE Return(MapIssues(result.issues).items)

\* faulty variant: no catch clause, the exception reaches the caller
generateErrorExamples_NoCatch(s, v) ==
  LET body == TryBlock(s, v)
  IN IF body.kind = "fallthrough" THEN Return(FallbackExamples) ELSE body

\* faulty variant: on success the (empty) local list _examples is returned
generateErrorExamples_ReturnsExamples(s, v) ==
  LET body == TryBlock(s, v)
  IN IF body.kind = "return" THEN body
     ELSE IF body.kind = "fallthrough" THEN Return(<<>>)
     ELSE Return(FallbackExamples)

\* faulty variant: the examples are kept in a list shared by all calls
generateErrorExamples_SharedExamples(s, v) ==
  LET body == TryBlock(s, v)
      now == IF body.kind = "return" THEN body.value ELSE FallbackExamples
  IN IF outcome.kind = "return" THEN Return(outcome.value \o now) ELSE Return(now)

\* try { ... } catch (error) { console.warn(...) }  return [fallback]
generateErrorExamples(s, v) ==
  LET body == TryBlock(s, v)
  IN IF body.kind = "return" THEN body ELSE Return(FallbackExamples)

\* console.warn runs once, in the catch clause
consoleWarnCalls(s, v) == IF TryBlock(s, v).kind = "throw" THEN 1 ELSE 0

----------------------------------------------------------------------------
(* The schemas and validators the calls are made with                      *)

SeqsUpTo(S, n) == UNION {[1..k -> S] : k \in 0..n}
IsInjective(f) == \A i, j \in 1..Len(f) : f[i].key = f[j].key => i = j

Email == [kind |-> "email"]
StrMin(k) == [kind |-> "min", value |-> k]
StrMax(k) == [kind |-> "max", value |-> k]
NumMin(k) == [kind |-> "min", value |-> k, inclusive |-> TRUE]
NumGt(k) == [kind |-> "min", value |-> k, inclusive |-> FALSE]
NumMax(k) == [kind |-> "max", value |-> k, inclusive |-> TRUE]

StringCheckUniverse ==
  {Email, [kind |-> "url"], [kind |-> "uuid"], [kind |-> "regex"], StrMin(1), StrMax(2),
   StrMax(-2)}
NumberCheckUniverse ==
  {NumMin(18), NumGt(0), NumMax(10), [kind |-> "int"], [kind |-> "multipleOf", value |-> 5]}

\* strings whose first recognised check is a maximum length
MaxLengthSchemas ==
  {ZodString(<<StrMax(n)>>) : n \in {0, 1, 5}}
    \cup {ZodString(<<[kind |-> "regex"], StrMax(n), StrMin(1)>>) : n \in {0, 1, 5}}

StringSchemas ==
  {ZodString(c) : c \in SeqsUpTo(StringCheckUniverse, MaxChecks)}
    \cup {ZodString(<<StrMax(-1)>>)} \cup MaxLengthSchemas
NumberSchemas == {ZodNumber(c) : c \in SeqsUpTo(NumberCheckUniverse, MaxChecks)}

EnumSchemas ==
  {ZodEnum({<<"a">>, <<"b">>}), ZodEnum({INVALID_ENUM_VALUE, <<"a">>})}

FieldUniverse ==
  { Field("email", ZodString(<<Email>>)),
    Field("age", ZodNumber(<<NumMin(18)>>)),
    Field("0", ZodBoolean),
    Field("tags", ZodArray(ZodString(<<>>))),
    Field("nick", ZodOptional(ZodString(<<StrMin(1)>>))),
    Field("1", ZodEnum({<<"a">>, <<"b">>})) }

FieldLists == {f \in SeqsUpTo(FieldUniverse, MaxFields) : IsInjective(f)}
FlatObjects == {ZodObject(f) : f \in FieldLists}
NestedObjects ==
  {ZodObject(<<Field("profile", ZodObject(f))>>) :
     f \in {g \in FieldLists : Len(g) = MaxFields}}

\* objects of one field that is a number with a lower bound only
MinFieldObjects ==
  {ZodObject(<<Field(f, ZodNumber(<<c>>))>>) :
     f \in {"age", "qty", "0"},
     c \in {NumMin(18), NumMin(0), NumMin(-5), NumGt(0)}}

UnionSchemas ==
  { ZodUnion(<<ZodString(<<>>), ZodNumber(<<>>)>>),
    ZodUnion(<<ZodObject(<<Field("nick", ZodOptional(ZodString(<<>>)))>>), ZodBoolean>>),
    ZodUnion(<<ZodAny>>) }

\* nodes of a kind without a case, around a child schema
OpaqueSchemas ==
  LET children ==
        { ZodString(<<Email>>), ZodBoolean, ZodOptional(ZodNumber(<<NumMin(18)>>)),
          ZodObject(<<Field("age", ZodNumber(<<NumMin(18)>>))>>) }
  IN {ZodEffects(x) : x \in children} \cup {ZodDefault(x) : x \in children}

WrapTargets ==
  { ZodString(<<>>), ZodString(<<Email>>), ZodString(<<StrMax(-2)>>),
    ZodNumber(<<NumMin(18)>>), ZodBoolean, ZodAny, ZodDate, UndefinedSchema,
    ZodEffects(ZodString(<<>>)), ZodDefault(ZodBoolean),
    ZodObject(<<Field("age", ZodNumber(<<NumMin(18)>>)), Field("email", ZodString(<<Email>>))>>) }

RECURSIVE Wrapped(_)
Wrapped(depth) ==
  IF depth = 0 THEN WrapTargets
  ELSE LET inner == Wrapped(depth - 1)
       IN {ZodArray(x) : x \in inner} \cup {ZodOptional(x) : x \in inner}
            \cup {ZodNullable(x) : x \in inner}

ZodSchemas ==
  StringSchemas \cup NumberSchemas \cup EnumSchemas \cup FlatObjects
    \cup NestedObjects \cup MinFieldObjects \cup UnionSchemas \cup OpaqueSchemas
    \cup UNION {Wrapped(d) : d \in 0..MaxWrap}

StubSchemas ==
  { ZodString(<<>>), ZodObject(<<Field("age", ZodNumber(<<NumMin(18)>>))>>),
    UndefinedSchema, ZodString(<<StrMax(-2)>>) }

IssueCodes ==
  DOMAIN messages \cup {"custom", "invalid_union", "constructor", "toString"}
IssuePaths ==
  { <<>>, <<SegStr("age")>>, <<SegStr("items"), SegNum(0)>>,
    <<SegSym("id"), SegStr("name")>> }
IssueMessages == {"", "Must be at least 18"}

AllIssues ==
  {Issue(c, p, m) : c \in IssueCodes, p \in IssuePaths, m \in IssueMessages}
    \cup {[code |-> c, path |-> p] : c \in IssueCodes, p \in IssuePaths}

CoreIssues ==
  { Issue("too_small", <<SegStr("age")>>, "Must be at least 18"),
    Issue("invalid_type", <<SegStr("items"), SegNum(0)>>, ""),
    Issue("custom", <<SegSym("id")>>, ""),
    [code |-> "invalid_type", message |-> "no path"] }

IssueLists == {<<i>> : i \in AllIssues} \cup SeqsUpTo(CoreIssues, MaxIssues)

StubResults ==
  {Success, Throw("Error"), UndefinedV, FailureNoError}
    \cup {Failure(l) : l \in IssueLists}

----------------------------------------------------------------------------
(* The create-user route: POST /users                                      *)

Requests == 1..MaxRequests

\* { key, ...rest } = obj: the object without one property
Omit(obj, key) == [k \in DOMAIN obj \ {key} |-> obj[k]]

\* /^(?=.*[A-Z])(?=.*\d)/i: a letter and a digit somewhere in the string
PasswordPattern(chars) ==
  /\ \E j \in 1..Len(chars) : chars[j] \in Letters
  /\ \E j \in 1..Len(chars) : chars[j] \in Digits

\* faulty variant: the schema without its refinement on confirmPassword
userInsertSchema_NoRefine(body) ==
  LET emailIssues ==
        IF IsEmail(body.email) THEN <<>>
        ELSE <<Issue("invalid_format", <<SegStr("email")>>, "Invalid email address")>>
      lengthIssues ==
        IF Len(body.password) >= MinPasswordLength THEN <<>>
        ELSE <<Issue("too_small", <<SegStr("password")>>, "Too small")>>
      patternIssues ==
        IF PasswordPattern(body.password) THEN <<>>
        ELSE <<Issue("invalid_format", <<SegStr("password")>>, "Invalid string")>>
      issues == emailIssues \o lengthIssues \o patternIssues
  IN IF issues = <<>> THEN [success |-> TRUE, data |-> body]
     ELSE [success |-> FALSE, error |-> issues]

\* userInsertSchema.safeParse(body): the field rules, then the refinement
userInsertSchema(body) ==
  LET emailIssues ==
        IF IsEmail(body.email) THEN <<>>
        ELSE <<Issue("invalid_format", <<SegStr("email")>>, "Invalid email address")>>
      lengthIssues ==
        IF Len(body.password) >= MinPasswordLength THEN <<>>
        ELSE <<Issue("too_small", <<SegStr("password")>>, "Too small")>>
      patternIssues ==
        IF PasswordPattern(body.password) THEN <<>>
        ELSE <<Issue("invalid_format", <<SegStr("password")>>, "Invalid string")>>
      refineIssues ==
        IF body.password = body.confirmPassword THEN <<>>
        ELSE <<Issue("custom", <<>>, "Passwords don't match")>>
      issues == emailIssues \o lengthIssues \o patternIssues \o refineIssues
  IN IF issues = <<>> THEN [success |-> TRUE, data |-> body]
     ELSE [success |-> FALSE, error |-> issues]

NoResponse == [status |-> 0]

\* faulty variant: the hook answers nothing, whatever the result
defaultHook_Silent(result) == NoResponse

\* defaultHook(result, c): a response for a failed validation, else nothing
defaultHook(result) ==
  IF ~result.success
  THEN [status |-> UNPROCESSABLE_ENTITY, success |-> result.success, error |-> result.error]
  ELSE NoResponse

\* faulty variant: only a missing DATABASE_URL is refused, an empty one is not
createDb_AcceptsEmpty(env) ==
  IF "DATABASE_URL" \notin DOMAIN env
  THEN Throw("Database URL is required")
  ELSE [t |-> "db", client |-> env.DATABASE_URL]

\* createDb(c): throws without a DATABASE_URL, else the database handle
createDb(env) ==
  IF "DATABASE_URL" \notin DOMAIN env \/ ~Truthy(env.DATABASE_URL)
  THEN Throw("Database URL is required")
  ELSE [t |-> "db", client |-> env.DATABASE_URL]

\* bcrypt.hash(s, rounds) with the salt it drew: a string that carries the
\* version, the cost and the salt, and is never the string hashed
bcryptHash(s, rounds, salt) == <<"$2b$", ToString(rounds), "$", salt>> \o s

\* the row the insert statement adds for .values(v): id from nanoid, the
\* timestamps from the column defaults
NewRow(id, v) ==
  [ id |-> id, email |-> v.email, password |-> v.password, username |-> v.username,
    user_type |-> v.user_type, created_at |-> "now", updated_at |-> "now" ]

\* faulty variant: a table without unique constraints
UniqueViolation_None(rows, v) == ""

\* the unique constraints of table users
UniqueViolation(rows, v) ==
  IF \E row \in rows : row.email = v.email
    THEN "duplicate key value violates unique constraint users_email_unique"
  ELSE IF \E row \in rows : row.username = v.username
    THEN "duplicate key value violates unique constraint users_username_unique"
  ELSE ""

Resolved(v) == [state |-> "resolved", value |-> v]
Rejected(message) == [state |-> "rejected", message |-> message]
Pending == [state |-> "pending"]

\* faulty variant: the created row is answered as it is
CreatedResponse_WholeRow(createdUser) ==
  [ status |-> CREATED, message |-> "User created successfully",
    data |-> createdUser ]

\* the success response of the handler
CreatedResponse(createdUser) ==
  LET userWithoutPassword == Omit(createdUser, "password")
  IN [ status |-> CREATED, message |-> "User created successfully",
       data |-> userWithoutPassword ]

\* the response of the catch block
ErrorResponse(message) ==
  [status |-> INTERNAL_SERVER_ERROR, message |-> "Internal Server Error", errors |-> message]

\* request bodies and contexts
ANN_EMAIL == <<"a", "@", "l", ".", "i", "o">>
BOB_EMAIL == <<"b", "@", "l", ".", "i", "o">>
NOT_EMAIL == <<"a", "n", "n">>
GOOD_PASSWORD == <<"s", "e", "c", "r", "e", "t", "1", "2">>
OTHER_PASSWORD == <<"s", "e", "c", "r", "e", "t", "1", "3">>
SHORT_PASSWORD == <<"a", "b", "c", "1">>

LETTERS_PASSWORD == <<"p", "a", "s", "s", "w", "o", "r", "d">>

Body(e, u, pw, confirm) ==
  [ email |-> e, username |-> u, user_type |-> "teacher",
    password |-> pw, confirmPassword |-> confirm ]

\* bodies that meet userInsertSchema: two of them share the email, two the
\* username, two nothing
ValidBodies ==
  { Body(ANN_EMAIL, "ann", GOOD_PASSWORD, GOOD_PASSWORD),
    Body(ANN_EMAIL, "bob", GOOD_PASSWORD, GOOD_PASSWORD),
    Body(BOB_EMAIL, "ann", GOOD_PASSWORD, GOOD_PASSWORD) }

\* bodies that break one rule each
InvalidBodies ==
  { Body(NOT_EMAIL, "ann", GOOD_PASSWORD, GOOD_PASSWORD),
    Body(ANN_EMAIL, "ann", GOOD_PASSWORD, OTHER_PASSWORD),
    Body(ANN_EMAIL, "ann", SHORT_PASSWORD, SHORT_PASSWORD),
    Body(ANN_EMAIL, "ann", LETTERS_PASSWORD, LETTERS_PASSWORD) }

Envs ==
  { [DATABASE_URL |-> "postgres://lab"], [DATABASE_URL |-> ""],
    [NODE_ENV |-> "production"] }

\* the context of a request: c.env, and whether c.var.logger is set. The
\* application of createApp installs the logger on every request; the
\* application of createTestApp mounts the router without it, and is
\* called here without a database binding.
Contexts ==
  {[env |-> e, logger |-> TRUE] : e \in Envs}
    \cup {[env |-> [NODE_ENV |-> "test"], logger |-> FALSE]}

\* the requests that arrive: every valid body where the database is bound,
\* one valid body in every context, the invalid bodies in the deployed
\* application and in the test application
Arrivals ==
  (ValidBodies \X {[env |-> [DATABASE_URL |-> "postgres://lab"], logger |-> TRUE]})
    \cup ({Body(ANN_EMAIL, "ann", GOOD_PASSWORD, GOOD_PASSWORD)} \X Contexts)
    \cup (InvalidBodies \X { [env |-> [DATABASE_URL |-> "postgres://lab"], logger |-> TRUE],
                             [env |-> [NODE_ENV |-> "test"], logger |-> FALSE] })

Salts == {"salt1", "salt2"}

NoRequest == [env |-> [NODE_ENV |-> ""]]
NoHash == <<>>

UsersInit ==
  /\ users = {}
  /\ pc = [r \in Requests |-> "idle"]
  /\ request = [r \in Requests |-> NoRequest]
  /\ hashedPassword = [r \in Requests |-> NoHash]
  /\ queryResult = [r \in Requests |-> Pending]
  /\ response = [r \in Requests |-> NoResponse]
  /\ log = [r \in Requests |-> <<>>]

\* a POST /users request reaches the application; requests are numbered in
\* the order they arrive
Arrive(r) ==
  /\ pc[r] = "idle"
  /\ \A q \in Requests : q < r => pc[q] # "idle"
  /\ \E a \in Arrivals :
       request' = [request EXCEPT ![r] = [body |-> a[1], env |-> a[2].env, logger |-> a[2].logger]]
  /\ pc' = [pc EXCEPT ![r] = "received"]
  /\ UNCHANGED <<users, hashedPassword, queryResult, response, log>>
  /\ UNCHANGED extractorVars
  /\ UNCHANGED errorVars

\* the route validates the body and hands the result to the default hook; a
\* response of the hook ends the request, otherwise the handler is next
Validate(r) ==
  /\ pc[r] = "received"
  /\ LET result == userInsertSchema(request[r].body)
         hooked == defaultHook(result)
     IN IF hooked # NoResponse
        THEN /\ response' = [response EXCEPT ![r] = hooked]
             /\ pc' = [pc EXCEPT ![r] = "done"]
             /\ log' = [log EXCEPT ![r] = @ \o <<"validate", "respond">>]
        ELSE /\ pc' = [pc EXCEPT ![r] = "validated"]
             /\ log' = [log EXCEPT ![r] = Append(@, "validate")]
             /\ UNCHANGED response
  /\ UNCHANGED <<users, request, hashedPassword, queryResult>>
  /\ UNCHANGED extractorVars
  /\ UNCHANGED errorVars

\* faulty variant: the handler sends the insert without hashing first
StartHandler_InsertsFirst(r) ==
  /\ pc[r] = "validated"
  /\ pc' = [pc EXCEPT ![r] = "awaitInsert"]
  /\ UNCHANGED <<users, request, hashedPassword, queryResult, response, log>>
  /\ UNCHANGED extractorVars
  /\ UNCHANGED errorVars

\* CreateUserHandler up to its first await: bcrypt.hash is called
StartHandler(r) ==
  /\ pc[r] = "validated"
  /\ pc' = [pc EXCEPT ![r] = "awaitHash"]
  /\ UNCHANGED <<users, request, hashedPassword, queryResult, response, log>>
  /\ UNCHANGED extractorVars
  /\ UNCHANGED errorVars

\* the catch block: c.var.logger.error(...) is called, then the error is
\* answered with 500; without a logger the call itself throws a TypeError
\* that leaves the handler, and the handler returns no response
Catch(r, message) ==
  IF request[r].logger
  THEN /\ response' = [response EXCEPT ![r] = ErrorResponse(message)]
       /\ pc' = [pc EXCEPT ![r] = "done"]
  ELSE /\ pc' = [pc EXCEPT ![r] = "thrown"]
       /\ UNCHANGED response

\* what the catch block adds to the steps of the request
CatchLog(r) == IF request[r].logger THEN <<"catch", "respond">> ELSE <<"catch", "throw">>

\* the hash arrives; createDb(c) runs and the insert statement is sent
HashResolved(r) ==
  /\ pc[r] = "awaitHash"
  /\ \E salt \in Salts :
       LET validatedBody == Omit(request[r].body, "confirmPassword")
           hashed == bcryptHash(validatedBody.password, BcryptRounds, salt)
           db == createDb(request[r].env)
       IN /\ hashedPassword' = [hashedPassword EXCEPT ![r] = hashed]
          /\ IF IsThrow(db)
             THEN /\ Catch(r, db.error)
                  /\ log' = [log EXCEPT ![r] = @ \o <<"hash">> \o CatchLog(r)]
             ELSE /\ pc' = [pc EXCEPT ![r] = "awaitInsert"]
                  /\ log' = [log EXCEPT ![r] = Append(@, "hash")]
                  /\ UNCHANGED response
  /\ UNCHANGED <<users, request, queryResult>>
  /\ UNCHANGED extractorVars
  /\ UNCHANGED errorVars

\* bcrypt.hash rejects (no source of random bytes for the salt)
HashRejected(r) ==
  /\ pc[r] = "awaitHash"
  /\ Catch(r, "Neither WebCryptoAPI nor a crypto module is available")
  /\ log' = [log EXCEPT ![r] = @ \o CatchLog(r)]
  /\ UNCHANGED <<users, request, hashedPassword, queryResult>>
  /\ UNCHANGED extractorVars
  /\ UNCHANGED errorVars

\* faulty variant: the values sent hold the password as it came
DbInsert_StoresPlaintext(r) ==
  /\ pc[r] = "awaitInsert"
  /\ queryResult[r] = Pending
  /\ LET validatedBody == Omit(request[r].body, "confirmPassword")
         values == [ password |-> validatedBody.password, username |-> validatedBody.username,
                     user_type |-> validatedBody.user_type, email |-> validatedBody.email ]
         refused == UniqueViolation(users, values)
     IN IF refused # ""
        THEN /\ queryResult' = [queryResult EXCEPT ![r] = Rejected(refused)]
             /\ UNCHANGED <<users, log>>
        ELSE /\ users' = users \cup {NewRow(r, values)}
             /\ queryResult' = [queryResult EXCEPT ![r] = Resolved(<<NewRow(r, values)>>)]
             /\ log' = [log EXCEPT ![r] = Append(@, "insert")]
  /\ UNCHANGED <<pc, request, hashedPassword, response>>
  /\ UNCHANGED extractorVars
  /\ UNCHANGED errorVars

\* the database executes the insert statement of request r: the row is
\* added and returned, or a unique constraint refuses it
DbInsert(r) ==
  /\ pc[r] = "awaitInsert"
  /\ queryResult[r] = Pending
  /\ LET validatedBody == Omit(request[r].body, "confirmPassword")
         values == [ password |-> hashedPassword[r], username |-> validatedBody.username,
                     user_type |-> validatedBody.user_type, email |-> validatedBody.email ]
         refused == UniqueViolation(users, values)
     IN IF refused # ""
        THEN /\ queryResult' = [queryResult EXCEPT ![r] = Rejected(refused)]
             /\ UNCHANGED <<users, log>>
        ELSE /\ users' = users \cup {NewRow(r, values)}
             /\ queryResult' = [queryResult EXCEPT ![r] = Resolved(<<NewRow(r, values)>>)]
             /\ log' = [log EXCEPT ![r] = Append(@, "insert")]
  /\ UNCHANGED <<pc, request, hashedPassword, response>>
  /\ UNCHANGED extractorVars
  /\ UNCHANGED errorVars

\* the database cannot be reached: the statement fails, no row is added
DbFails(r) ==
  /\ pc[r] = "awaitInsert"
  /\ queryResult[r] = Pending
  /\ queryResult' = [queryResult EXCEPT ![r] = Rejected("fetch failed")]
  /\ UNCHANGED <<users, pc, request, hashedPassword, response, log>>
  /\ UNCHANGED extractorVars
  /\ UNCHANGED errorVars

\* the database executes the insert statement and adds the row, but its
\* answer does not reach the handler: the awaited statement fails
DbReplyLost(r) ==
  /\ pc[r] = "awaitInsert"
  /\ queryResult[r] = Pending
  /\ LET validatedBody == Omit(request[r].body, "confirmPassword")
         values == [ password |-> hashedPassword[r], username |-> validatedBody.username,
                     user_type |-> validatedBody.user_type, email |-> validatedBody.email ]
     IN /\ UniqueViolation(users, values) = ""
        /\ users' = users \cup {NewRow(r, values)}
  /\ queryResult' = [queryResult EXCEPT ![r] = Rejected("fetch failed")]
  /\ log' = [log EXCEPT ![r] = Append(@, "insert")]
  /\ UNCHANGED <<pc, request, hashedPassword, response>>
  /\ UNCHANGED extractorVars
  /\ UNCHANGED errorVars

\* the awaited insert settles: the created row without its password is
\* answered with 201, a failure goes to the catch block
InsertSettled(r) ==
  /\ pc[r] = "awaitInsert"
  /\ queryResult[r] # Pending
  /\ IF queryResult[r].state = "rejected"
     THEN /\ Catch(r, queryResult[r].message)
          /\ log' = [log EXCEPT ![r] = @ \o CatchLog(r)]
     ELSE LET createdUser == queryResult[r].value[1]
          IN /\ response' = [response EXCEPT ![r] = CreatedResponse(createdUser)]
             /\ pc' = [pc EXCEPT ![r] = "done"]
             /\ log' = [log EXCEPT ![r] = @ \o <<"strip", "respond">>]
  /\ UNCHANGED <<users, request, hashedPassword, queryResult>>
  /\ UNCHANGED extractorVars
  /\ UNCHANGED errorVars

\* one request through POST /users
CreateUserHandler(r) ==
  \/ StartHandler(r)
  \/ HashResolved(r)
  \/ HashRejected(r)
  \/ InsertSettled(r)

NextUsers ==
  \E r \in Requests :
    \/ Arrive(r)
    \/ Validate(r)
    \/ CreateUserHandler(r)
    \/ DbInsert(r)
    \/ DbFails(r)
    \/ DbReplyLost(r)

----------------------------------------------------------------------------
(* The global error handler (on-error.ts)                                  *)

\* new HTTPException(status, { message }) and new HTTPException(status, { res })
HTTPException(status, message) == [t |-> "HTTPException", status |-> status, message |-> message]
HTTPExceptionWith(res) == [t |-> "HTTPException", status |-> res.status, message |-> "", res |-> res]

\* any other error: its message, and its stack where the engine recorded one
ErrorOf(message) == [t |-> "Error", message |-> message]
ErrorAt(message, stack) == [t |-> "Error", message |-> message, stack |-> stack]

\* err.getResponse(): the response given to the exception, else one made of
\* its status and message
getResponse(err) ==
  IF "res" \in DOMAIN err THEN err.res
  ELSE [status |-> err.status, text |-> err.message]

\* c.env?.NODE_ENV || process.env?.NODE_ENV; "" stands for a falsy result
\* (undefined or the empty string)
NodeEnv(c, process) ==
  IF "env" \in DOMAIN c /\ "NODE_ENV" \in DOMAIN c.env /\ Truthy(c.env.NODE_ENV)
  THEN c.env.NODE_ENV
  ELSE IF "env" \in DOMAIN process /\ "NODE_ENV" \in DOMAIN process.env
       THEN process.env.NODE_ENV
       ELSE ""

\* faulty variant: the stack is sent whatever the environment
onError_AlwaysStack(err, c, process) ==
  IF err.t = "HTTPException" THEN getResponse(err)
  ELSE IF "stack" \in DOMAIN err
       THEN [ status |-> INTERNAL_SERVER_ERROR, message |-> "Internal Server Error",
              error |-> err.message, stack |-> err.stack ]
       ELSE [ status |-> INTERNAL_SERVER_ERROR, message |-> "Internal Server Error",
              error |-> err.message ]

\* onError(err, c): the exception's own response, else a JSON body with
\* status 500; a field whose value is undefined is not part of the JSON
onError(err, c, process) ==
  IF err.t = "HTTPException" THEN getResponse(err)
  ELSE LET env == NodeEnv(c, process)
       IN IF env # "production" /\ "stack" \in DOMAIN err
          THEN [ status |-> INTERNAL_SERVER_ERROR, message |-> "Internal Server Error",
                 error |-> err.message, stack |-> err.stack ]
          ELSE [ status |-> INTERNAL_SERVER_ERROR, message |-> "Internal Server Error",
                 error |-> err.message ]

\* the errors thrown while the application handles a request
Errors ==
  {HTTPException(s, m) : s \in {400, 401, 404}, m \in {"Malformed JSON in request body", ""}}
    \cup {HTTPExceptionWith([status |-> 401, text |-> "Unauthorized", type |-> "text/plain"])}
    \cup {ErrorOf(m) : m \in {"boom", "", "Database URL is required"}}
    \cup {ErrorAt(m, "Error: at CreateUserHandler (users.handlers.ts:22)") :
            m \in {"boom", "", "Database URL is required"}}

\* c: with or without bindings, the NODE_ENV binding unset, empty or set
ErrorContexts ==
  {[req |-> "POST /users"]}
    \cup {[req |-> "POST /users", env |-> e] :
            e \in { [DATABASE_URL |-> "postgres://lab"], [NODE_ENV |-> ""],
                    [NODE_ENV |-> "production"], [NODE_ENV |-> "development"] }}

\* process: without env, or with NODE_ENV unset or set
Processes ==
  { [title |-> "workerd"], [env |-> [HOME |-> "/"]],
    [env |-> [NODE_ENV |-> "production"]], [env |-> [NODE_ENV |-> "development"]] }

NoError == [t |-> "none"]

ErrorsInit ==
  /\ thrown = [err |-> NoError]
  /\ handled = NoResponse

\* a handler or middleware throws err while the application of createApp
\* handles a request with context c: the framework hands it to onError and
\* sends what onError returns
HandleError ==
  /\ \E err \in Errors, c \in ErrorContexts, process \in Processes :
       /\ thrown' = [err |-> err, c |-> c, process |-> process]
       /\ handled' = onError(err, c, process)
  /\ UNCHANGED extractorVars
  /\ UNCHANGED usersVars

NextErrors == HandleError

----------------------------------------------------------------------------
(* Calls                                                                   *)

NoSchema == [typeName |-> "none"]
NoOutcome == [kind |-> "none"]

Init ==
  /\ schema = NoSchema
  /\ validator = ZodValidator
  /\ badData = UndefinedV
  /\ parsed = NotCalled
  /\ outcome = NoOutcome
  /\ warnings = 0
  /\ phase = "idle"
  /\ badData2 = UndefinedV
  /\ outcome2 = NoOutcome
  /\ calls = 0
  /\ UsersInit
  /\ ErrorsInit

\* faulty variant: the examples are collected in a list that outlives the
\* call, so a call returns those of the earlier calls too
Extract_KeepsExamples(s, v) ==
  /\ schema' = s
  /\ validator' = v
  /\ badData' = generateBadData(s, <<>>)
  /\ parsed' = IF IsThrow(generateBadData(s, <<>>)) THEN NotCalled
               ELSE safeParse(s, v, generateBadData(s, <<>>))
  /\ outcome' = IF outcome = NoOutcome \/ outcome.kind # "return"
                    \/ generateErrorExamples(s, v).kind # "return"
                 THEN generateErrorExamples(s, v)
                 ELSE [generateErrorExamples(s, v) EXCEPT !.value = outcome.value \o @]
  /\ warnings' = consoleWarnCalls(s, v)
  /\ phase' = "called"
  /\ badData2' = UndefinedV
  /\ outcome2' = NoOutcome
  /\ calls' = calls + 1
  /\ UNCHANGED usersVars
  /\ UNCHANGED errorVars

\* one call generateErrorExamples(schema)
Extract(s, v) ==
  /\ schema' = s
  /\ validator' = v
  /\ badData' = generateBadData(s, <<>>)
  /\ parsed' = IF IsThrow(generateBadData(s, <<>>)) THEN NotCalled
               ELSE safeParse(s, v, generateBadData(s, <<>>))
  /\ outcome' = generateErrorExamples(s, v)
  /\ warnings' = consoleWarnCalls(s, v)
  /\ phase' = "called"
  /\ badData2' = UndefinedV
  /\ outcome2' = NoOutcome
  /\ calls' = calls + 1
  /\ UNCHANGED usersVars
  /\ UNCHANGED errorVars

\* a schema validated by the library
ExtractZod ==
  /\ phase = "idle"
  /\ \E s \in ZodSchemas : Extract(s, ZodValidator)

\* a schema whose safeParse answers with a fixed result
ExtractStub ==
  /\ phase = "idle"
  /\ \E s \in StubSchemas, r \in StubResults : Extract(s, StubValidator(r))

\* the schemas of later calls
LaterSchemas ==
  { ZodString(<<Email>>), ZodNumber(<<NumMin(18)>>), ZodUnion(<<ZodAny>>), UndefinedSchema,
    ZodObject(<<Field("age", ZodNumber(<<NumMin(18)>>)), Field("email", ZodString(<<Email>>))>>) }

\* a later call, on another schema, after the calls made so far
ExtractLater ==
  /\ phase # "idle"
  /\ calls < MaxCalls
  /\ \E s \in LaterSchemas : Extract(s, ZodValidator)

\* the same schema object passed again
Repeat ==
  /\ phase = "called"
  /\ calls < MaxCalls
  /\ badData2' = generateBadData(schema, <<>>)
  /\ outcome2' = generateErrorExamples(schema, validator)
  /\ phase' = "repeated"
  /\ calls' = calls + 1
  /\ UNCHANGED <<schema, validator, badData, parsed, outcome, warnings>>
  /\ UNCHANGED usersVars
  /\ UNCHANGED errorVars

Next == ExtractZod \/ ExtractStub \/ ExtractLater \/ Repeat

Spec == Init /\ [][Next]_vars

\* the create-user route alone: requests arrive and are processed
SpecUsers == Init /\ [][NextUsers]_vars

\* the error handler alone: errors are thrown and answered
SpecErrors == Init /\ [][NextErrors]_vars

----------------------------------------------------------------------------
(* Properties                                                              *)

Called == phase # "idle"
ByLibrary == validator.kind = "zod"

\* what happened inside the try block of the last call
SynthesisThrew == IsThrow(badData)
ValidatorThrew == IsThrow(parsed)
ValidatorSucceeded == parsed.t = "result" /\ parsed.success
\* the validator reported failure with an issue list
ValidatorFailed ==
  parsed.t = "result" /\ ~parsed.success /\ "issues" \in DOMAIN parsed
\* the result cannot be read: no result, no error object, or one of the
\* issues that are mapped has no path
MappingThrew ==
  \/ parsed.t = "undefined"
  \/ /\ parsed.t = "result"
     /\ ~parsed.success
     /\ \/ "issues" \notin DOMAIN parsed
        \/ \E k \in 1..Min(3, Len(parsed.issues)) : "path" \notin DOMAIN parsed.issues[k]
\* the issues were mapped to examples
Harvested == ValidatorFailed /\ ~MappingThrew

\* C1: generateErrorExamples never propagates an exception; whenever
\* generateBadData, safeParse or the issue mapping throws, the call returns
\* exactly the one generic fallback example.
C1_NeverPropagates ==
  Called =>
    /\ outcome.kind = "return"
    /\ (SynthesisThrew \/ ValidatorThrew \/ MappingThrew)
         => outcome.value = FallbackExamples /\ warnings = 1

C1_Witness ==
  /\ phase = "called"
  /\ MappingThrew
  /\ parsed.t = "result"
  /\ outcome = Return(FallbackExamples)

\* C2: when the validator reports success for the synthesized value, the
\* call returns exactly the one-element fallback list: not an empty list,
\* not an exception.
C2_FallbackOnSuccess ==
  (Called /\ ValidatorSucceeded) =>
    /\ outcome.kind = "return"
    /\ outcome.value = FallbackExamples
    /\ Len(outcome.value) = 1

C2_Witness ==
  /\ phase = "called"
  /\ ByLibrary
  /\ schema = ZodAny
  /\ badData = NullV
  /\ ValidatorSucceeded
  /\ outcome = Return(FallbackExamples)

\* C3 (as claimed): every call ends either with at least one harvested issue
\* or with exactly the fallback example; the returned list is never empty.
C3_TwoOutcomes ==
  Called =>
    /\ outcome.kind = "return"
    /\ \/ outcome.value = FallbackExamples
       \/ Harvested /\ Len(outcome.value) >= 1

\* C4: the returned list never has more than 3 examples.
C4_AtMostThree ==
  Called => outcome.kind = "return" /\ Len(outcome.value) <= 3

C4_Witness ==
  /\ phase = "called"
  /\ Harvested
  /\ Len(parsed.issues) > 3
  /\ Len(outcome.value) = 3

\* the segment an issue's path segment must become
ExpectedSegment(p) ==
  IF p.k \in {"string", "number"} THEN p ELSE SegStr("Symbol(" \o p.d \o ")")

\* C5: on a validation failure with issues I the call returns min(3, |I|)
\* examples, the k-th made from the k-th issue: same code, same path with
\* every symbol segment replaced by its string form.
C5_PrefixInOrder ==
  (Called /\ Harvested) =>
    /\ outcome.kind = "return"
    /\ Len(outcome.value) = Min(3, Len(parsed.issues))
    /\ \A k \in 1..Len(outcome.value) :
         /\ outcome.value[k].code = parsed.issues[k].code
         /\ Len(outcome.value[k].path) = Len(parsed.issues[k].path)
         /\ \A j \in 1..Len(parsed.issues[k].path) :
              outcome.value[k].path[j] = ExpectedSegment(parsed.issues[k].path[j])

C5_Witness ==
  /\ phase = "called"
  /\ Harvested
  /\ Len(parsed.issues) = 4
  /\ Len(outcome.value) = 3
  /\ parsed.issues[1].code # parsed.issues[2].code
  /\ \E k \in 1..3 : \E j \in 1..Len(parsed.issues[k].path) :
       parsed.issues[k].path[j].k = "symbol"
  /\ \E k \in 1..3 : \E j \in 1..Len(parsed.issues[k].path) :
       parsed.issues[k].path[j].k = "number"

\* the default message the table of the specification gives a code
TableDefault(code) ==
  CASE code = "invalid_type" -> "Invalid type provided"
    [] code = "invalid_string" -> "Invalid string format"
    [] code = "too_small" -> "Value is too small"
    [] code = "too_big" -> "Value is too large"
    [] code = "invalid_enum_value" -> "Invalid enum value"
    [] code = "unrecognized_keys" -> "Unrecognized keys in object"
    [] code = "required_error" -> "Required field is missing"
    [] OTHER -> "Validation error"

HasMessage(issue) == "message" \in DOMAIN issue /\ issue.message # ""

\* C6 (as claimed): a harvested example carries the validator's message when
\* it is non-empty, and otherwise the table's default for the code, which
\* is "Validation error" for every code outside the table.
C6_Messages ==
  (Called /\ Harvested) =>
    \A k \in 1..Len(outcome.value) :
      outcome.value[k].message =
        IF HasMessage(parsed.issues[k]) THEN parsed.issues[k].message
        ELSE TableDefault(parsed.issues[k].code)

DeclaredPrefix(fields) ==
  [i \in 1..Min(3, Len(fields)) |-> fields[i].key]

\* every object in value v, built for schema s, has exactly the first
\* min(3, n) declared fields as keys, in declaration order, each mapped to
\* generateBadData of that field's schema
RECURSIVE ObjectsAsDeclared(_, _)
ObjectsAsDeclared(s, v) ==
  CASE s.typeName = "ZodObject" ->
         /\ v.t = "object"
         /\ v.keys = DeclaredPrefix(s.fields)
         /\ \A i \in 1..Len(v.keys) :
              /\ v.vals[i] = generateBadData(s.fields[i].schema, <<>>)
              /\ ObjectsAsDeclared(s.fields[i].schema, v.vals[i])
    [] s.typeName = "ZodArray" ->
         v.t = "array" /\ Len(v.items) = 1 /\ ObjectsAsDeclared(s.type, v.items[1])
    [] s.typeName \in {"ZodOptional", "ZodNullable"} ->
         ObjectsAsDeclared(s.innerType, v)
    [] OTHER -> TRUE

\* C8 (as claimed): at every nesting depth the object built for an Object
\* schema has as keys exactly the first min(3, n) declared field names in
\* declaration order; a field declared fourth or later never appears.
C8_FirstThreeDeclared ==
  (Called /\ ~SynthesisThrew) => ObjectsAsDeclared(schema, badData)

\* the first check of a Number node that generateBadData reacts to
IsNumberRule(check) == check.kind \in {"min", "max", "int"}
FirstNumberRule(checks) ==
  checks[CHOOSE i \in 1..Len(checks) :
           IsNumberRule(checks[i]) /\ \A j \in 1..(i - 1) : ~IsNumberRule(checks[j])]
HasNumberRule(checks) == \E i \in 1..Len(checks) : IsNumberRule(checks[i])

ReportsCode(code) ==
  ValidatorFailed /\ \E k \in 1..Len(parsed.issues) : parsed.issues[k].code = code

\* C9 (as claimed): for a Number schema with a min constraint m the
\* synthesized value is m - 1 and validating it reports a too_small issue.
C9_MinMinusOne ==
  (Called /\ ByLibrary /\ schema.typeName = "ZodNumber") =>
    \A i \in 1..Len(schema.checks) :
      schema.checks[i].kind = "min" =>
        /\ \E j \in 1..Len(schema.checks) :
             /\ schema.checks[j].kind = "min"
             /\ badData = NumV(schema.checks[j].value - 1)
        /\ ReportsCode("too_small")

\* C9 (amended): for a Number schema whose first min/max/int check in
\* declaration order is min = m, the synthesized value is m - 1 and
\* validating it reports a too_small issue.
C9_FirstRuleMin ==
  (/\ Called
   /\ ByLibrary
   /\ schema.typeName = "ZodNumber"
   /\ HasNumberRule(schema.checks)
   /\ FirstNumberRule(schema.checks).kind = "min") =>
    /\ badData = NumV(FirstNumberRule(schema.checks).value - 1)
    /\ ReportsCode("too_small")

C9_Witness ==
  /\ phase = "called"
  /\ ByLibrary
  /\ schema = ZodNumber(<<[kind |-> "multipleOf", value |-> 5], NumMin(18), NumMax(10)>>)
  /\ badData = NumV(17)
  /\ ReportsCode("too_small")
  /\ outcome.kind = "return"
  /\ outcome.value[2].code = "too_small"

HasEmailCheck(s) ==
  s.typeName = "ZodString" /\ \E i \in 1..Len(s.checks) : s.checks[i].kind = "email"

IsStringRule(check) == check.kind \in {"email", "url", "uuid", "min", "max"}
FirstStringRule(checks) ==
  checks[CHOOSE i \in 1..Len(checks) :
           IsStringRule(checks[i]) /\ \A j \in 1..(i - 1) : ~IsStringRule(checks[j])]
HasStringRule(checks) == \E i \in 1..Len(checks) : IsStringRule(checks[i])

\* the value the synthesis table gives for one check of a String node; a
\* length below zero cannot be built and is an exception
MeetsStringRule(check, v) ==
  CASE check.kind = "email" -> v.t = "string" /\ ~IsEmail(v.s)
    [] check.kind = "url" -> v.t = "string" /\ ~IsUrl(v.s)
    [] check.kind = "uuid" -> v.t = "string" /\ ~IsUuid(v.s)
    [] check.kind = "min" -> v = StrV(<<>>)
    [] check.kind = "max" ->
         IF check.value + 1 >= 0
           THEN v.t = "string" /\ Len(v.s) = check.value + 1
           ELSE IsThrow(v)
    [] OTHER -> v.t = "number"

\* the value the synthesis table gives for one check of a Number node
MeetsNumberRule(check, v) ==
  CASE check.kind = "min" -> v = NumV(check.value - 1)
    [] check.kind = "max" -> v = NumV(check.value + 1)
    [] check.kind = "int" -> v.t = "number" /\ v.half
    [] OTHER -> v.t = "string"

SeveralChecks ==
  /\ Called
  /\ schema.typeName \in {"ZodString", "ZodNumber"}
  /\ Len(schema.checks) >= 2

\* C11 (as claimed): for a String or Number node with several constraints
\* the synthesized value is the one prescribed for the first constraint in
\* declaration order; the constraints declared after it have no effect.
C11_FirstDeclared ==
  SeveralChecks =>
    IF schema.typeName = "ZodString"
      THEN MeetsStringRule(schema.checks[1], badData)
      ELSE MeetsNumberRule(schema.checks[1], badData)

\* C11 (amended): for a String or Number node with several constraints the
\* outcome of synthesis is the one prescribed for the first constraint, in
\* declaration order, among those generateBadData recognises (email, url,
\* uuid, min, max for String; min, max, int for Number); it equals the
\* outcome for a node declaring that constraint alone, so every other
\* constraint, before or after it, has no effect.
C11_FirstRecognised ==
  /\ (SeveralChecks /\ schema.typeName = "ZodString" /\ HasStringRule(schema.checks)) =>
       /\ MeetsStringRule(FirstStringRule(schema.checks), badData)
       /\ badData = generateBadData(ZodString(<<FirstStringRule(schema.checks)>>), <<>>)
  /\ (SeveralChecks /\ schema.typeName = "ZodNumber" /\ HasNumberRule(schema.checks)) =>
       /\ MeetsNumberRule(FirstNumberRule(schema.checks), badData)
       /\ badData = generateBadData(ZodNumber(<<FirstNumberRule(schema.checks)>>), <<>>)

C11_Witness ==
  /\ phase = "called"
  /\ schema = ZodNumber(<<[kind |-> "multipleOf", value |-> 5], NumMax(10), NumMin(18)>>)
  /\ badData = NumV(11)

\* an object schema of exactly one field that is a Number whose only
\* check is a lower bound
SingleMinField(s) ==
  /\ s.typeName = "ZodObject"
  /\ Len(s.fields) = 1
  /\ s.fields[1].schema.typeName = "ZodNumber"
  /\ Len(s.fields[1].schema.checks) = 1
  /\ s.fields[1].schema.checks[1].kind = "min"

\* C12: for an Object schema with a single field f that is a Number with
\* min = m, generateBadData returns {f: m - 1} and generateErrorExamples
\* returns exactly one example: code "too_small", path [f], and the message
\* of the validator or, when that is empty, "Value is too small".
C12_SingleMinField ==
  (Called /\ ByLibrary /\ SingleMinField(schema)) =>
    LET f == schema.fields[1].key
        m == schema.fields[1].schema.checks[1].value
    IN /\ badData = ObjV(<<f>>, <<NumV(m - 1)>>)
       /\ ValidatorFailed
       /\ outcome.kind = "return"
       /\ Len(outcome.value) = 1
       /\ outcome.value[1].code = "too_small"
       /\ outcome.value[1].path = <<SegStr(f)>>
       /\ outcome.value[1].message =
            IF parsed.issues[1].message # "" THEN parsed.issues[1].message
            ELSE "Value is too small"

C12_Witness ==
  /\ phase = "called"
  /\ ByLibrary
  /\ schema = ZodObject(<<Field("age", ZodNumber(<<NumMin(18)>>))>>)
  /\ badData = ObjV(<<"age">>, <<NumV(17)>>)
  /\ Len(outcome.value) = 1
  /\ outcome.value[1].code = "too_small"
  /\ outcome.value[1].path = <<SegStr("age")>>

\* C13: for every Enum schema, whatever its set of allowed values, the
\* value synthesized by generateBadData is not a member of the allowed set.
C13_OutsideAllowed ==
  (Called /\ schema.typeName = "ZodEnum") =>
    ~(badData.t = "string" /\ badData.s \in schema.values)

\* a member schema takes the value: validating the value against it
\* reports no issue
Accepts(s, data) == ZodIssues(s, data, <<>>) = <<>>

\* C14: for every Union schema, whatever its members, the synthesized
\* value is a marker object that no member schema accepts, so validating
\* it against the union never succeeds.
C14_ForeignToEveryMember ==
  (Called /\ ByLibrary /\ schema.typeName = "ZodUnion") =>
    /\ badData.t = "object"
    /\ \A k \in 1..Len(schema.options) : ~Accepts(schema.options[k], badData)
    /\ ~ValidatorSucceeded

\* C15: for every Array schema with element schema e, generateBadData
\* returns a sequence of exactly one element, never none and never two or
\* more, and that element equals generateBadData(e); no sequence is
\* returned only when generateBadData(e) itself throws, and then the same
\* exception leaves the call.
C15_OneElement ==
  (Called /\ schema.typeName = "ZodArray") =>
    LET item == generateBadData(schema.type, <<>>)
    IN IF IsThrow(item) THEN badData = item
       ELSE /\ badData.t = "array"
            /\ Len(badData.items) = 1
            /\ badData.items[1] = item

C15_Witness ==
  /\ phase = "called"
  /\ schema = ZodArray(ZodOptional(ZodNumber(<<NumMin(18)>>)))
  /\ badData = ArrV(<<NumV(17)>>)

\* the kinds generateBadData has a case for
RecognisedKinds ==
  { "ZodString", "ZodNumber", "ZodBoolean", "ZodEnum", "ZodArray", "ZodObject",
    "ZodOptional", "ZodNullable", "ZodUnion" }

IsWrapper(s) == s.typeName \in {"ZodOptional", "ZodNullable"}

\* the schema under every Optional and Nullable around it
RECURSIVE Unwrap(_)
Unwrap(s) == IF IsWrapper(s) THEN Unwrap(s.innerType) ELSE s

\* C16: Optional and Nullable are transparent to synthesis: the outcome
\* for Optional(x) and for Nullable(x) is the outcome for x, at any depth of
\* nested wrappers, and a wrapper around a schema of a recognised kind
\* never gives undefined or null.
C16_Transparent ==
  (Called /\ IsWrapper(schema)) =>
    /\ badData = generateBadData(schema.innerType, <<>>)
    /\ generateBadData(ZodOptional(schema.innerType), <<>>)
         = generateBadData(ZodNullable(schema.innerType), <<>>)
    /\ badData = generateBadData(Unwrap(schema), <<>>)
    /\ Unwrap(schema).typeName \in RecognisedKinds =>
         badData.t \notin {"undefined", "null"}

C16_Witness ==
  /\ phase = "called"
  /\ schema = ZodOptional(ZodNullable(ZodString(<<Email>>)))
  /\ badData = StrV(INVALID_EMAIL)

\* C17: for a String schema whose first recognised check is a maximum
\* length n, n a non-negative integer, generateBadData returns a string of
\* length exactly n + 1; for one whose first recognised check is a minimum
\* length it returns the empty string.
C17_LengthBounds ==
  (Called /\ schema.typeName = "ZodString" /\ HasStringRule(schema.checks)) =>
    LET rule == FirstStringRule(schema.checks)
    IN /\ (rule.kind = "max" /\ rule.value >= 0) =>
            /\ badData.t = "string"
            /\ Len(badData.s) = rule.value + 1
       /\ rule.kind = "min" => badData = StrV(<<>>)

C17_Witness ==
  /\ phase = "called"
  /\ schema = ZodString(<<[kind |-> "regex"], StrMax(5), StrMin(1)>>)
  /\ badData.t = "string"
  /\ Len(badData.s) = 6

\* C18: a node without a recognised check gets a value of a foreign type:
\* a String node with no check, or only checks other than email, url, uuid,
\* min and max, an integer; a Number node with none of min, max and int a
\* value that is not a number; a Boolean node a value that is not a boolean.
C18_ForeignType ==
  Called =>
    /\ (schema.typeName = "ZodString" /\ ~HasStringRule(schema.checks)) =>
         /\ badData.t = "number"
         /\ ~badData.half
    /\ (schema.typeName = "ZodNumber" /\ ~HasNumberRule(schema.checks)) =>
         badData.t \notin {"number", "throw"}
    /\ schema.typeName = "ZodBoolean" => badData.t \notin {"boolean", "throw"}

C18_Witness ==
  /\ phase = "called"
  /\ schema = ZodString(<<[kind |-> "regex"], [kind |-> "regex"]>>)
  /\ badData = NumV(123)

\* a schema node, as opposed to a reference that is undefined
IsNode(s) == s # UndefinedSchema /\ s # NoSchema

\* C19: for every schema node whose kind is none of String, Number,
\* Boolean, Enum, Array, Object, Optional, Nullable, Union, generateBadData
\* returns null, whatever child schema the node holds.
C19_NullForOtherKinds ==
  (Called /\ IsNode(schema) /\ schema.typeName \notin RecognisedKinds) =>
    badData = NullV

C19_Witness ==
  /\ phase = "called"
  /\ schema = ZodDefault(ZodObject(<<Field("age", ZodNumber(<<NumMin(18)>>))>>))
  /\ badData = NullV
  /\ generateBadData(schema.innerType, <<>>) = ObjV(<<"age">>, <<NumV(17)>>)

\* the steps of one create-user request, in the order the route runs them
StepOrder == <<"validate", "hash", "insert", "strip", "respond">>
IsStep(s) == \E i \in 1..Len(StepOrder) : StepOrder[i] = s
Rank(s) == CHOOSE i \in 1..Len(StepOrder) : StepOrder[i] = s
Steps(r) == SelectSeq(log[r], IsStep)
InOrder(seq) == \A i, j \in 1..Len(seq) : i < j => Rank(seq[i]) < Rank(seq[j])
Before(r, a, b) ==
  \E i, j \in 1..Len(log[r]) : i < j /\ log[r][i] = a /\ log[r][j] = b
HasRow(r) == \E row \in users : row.id = r

\* C20: for every POST /users request the steps happen in the order
\* validate, hash password, insert row, strip secret field, respond: a row
\* is in the table only after the body passed validation and the password
\* was hashed, and a 201 response is sent only after the insert returned
\* the created row.
C20_StepsInOrder ==
  \A r \in Requests :
    /\ InOrder(Steps(r))
    /\ HasRow(r) =>
         /\ userInsertSchema(request[r].body).success
         /\ hashedPassword[r] # NoHash
         /\ Before(r, "validate", "hash")
         /\ Before(r, "hash", "insert")
    /\ response[r].status = CREATED =>
         /\ queryResult[r].state = "resolved"
         /\ queryResult[r].value[1] \in users
         /\ queryResult[r].value[1].id = r
         /\ log[r] = StepOrder

C20_Witness ==
  /\ response[1].status = CREATED
  /\ log[1] = StepOrder
  /\ response[2].status = CREATED
  /\ Cardinality(users) = 2

RowOf(r) == CHOOSE row \in users : row.id = r
SecretFields == {"password", "confirmPassword"}

Validated(r) == pc[r] \notin {"idle", "received"}
BodyFails(r) == ~userInsertSchema(request[r].body).success

TakenByOther(r) ==
  /\ pc[r] # "idle"
  /\ \E row \in users :
       /\ row.id # r
       /\ \/ row.email = request[r].body.email
          \/ row.username = request[r].body.username

\* C23: after any interleaving of create-user requests table users never
\* holds two rows with the same email or the same username; a request
\* whose email or username is taken by a row inserts no row and gets no
\* 201 response.
C23_UniqueUnderConcurrency ==
  /\ \A a, b \in users :
       (a.email = b.email \/ a.username = b.username) => a = b
  /\ \A r \in Requests :
       TakenByOther(r) => (~HasRow(r) /\ response[r].status # CREATED)

C23_Witness ==
  /\ pc[1] = "done"
  /\ pc[2] = "done"
  /\ request[1].body.email = request[2].body.email
  /\ request[1].body.username # request[2].body.username
  /\ response[1].status = INTERNAL_SERVER_ERROR
  /\ response[1].errors = "duplicate key value violates unique constraint users_email_unique"
  /\ response[2].status = CREATED
  /\ Cardinality(users) = 1

\* C24: in every row the create-user handler inserts, the password column
\* holds the bcrypt hash computed from the password of the request, never
\* the password itself, and confirmPassword is not written to the table.
C24_HashStored ==
  \A row \in users :
    LET body == request[row.id].body
    IN /\ row.password = hashedPassword[row.id]
       /\ \E salt \in Salts : row.password = bcryptHash(body.password, BcryptRounds, salt)
       /\ row.password # body.password
       /\ row.password # body.confirmPassword
       /\ row.email = body.email
       /\ row.email # body.confirmPassword
       /\ "confirmPassword" \notin DOMAIN row

C24_Witness ==
  /\ Cardinality(users) = 2
  /\ RowOf(1).password = bcryptHash(GOOD_PASSWORD, BcryptRounds, "salt1")
  /\ RowOf(2).password = bcryptHash(GOOD_PASSWORD, BcryptRounds, "salt2")

\* the number of responses a request was answered with
Responses(r) == Cardinality({i \in 1..Len(log[r]) : log[r][i] = "respond"})

\* C25: the handler never throws to the framework: a request it handled has
\* exactly one response, 201 or 500; the 500 carries the message
\* "Internal Server Error" and the failure's message in errors, and the
\* request has left no row in the users table.
C25_NeverThrows ==
  \A r \in Requests :
    /\ pc[r] # "thrown"
    /\ (pc[r] = "done" /\ response[r].status # UNPROCESSABLE_ENTITY) =>
         /\ response[r].status \in {CREATED, INTERNAL_SERVER_ERROR}
         /\ Responses(r) = 1
         /\ response[r].status = INTERNAL_SERVER_ERROR =>
              /\ response[r].message = "Internal Server Error"
              /\ response[r].errors # ""
              /\ ~HasRow(r)

\* the body breaks a password rule: the two passwords differ, or the
\* password is shorter than 8 characters
PasswordsDiffer(r) == request[r].body.password # request[r].body.confirmPassword
PasswordTooShort(r) == Len(request[r].body.password) < MinPasswordLength

\* the steps of the handler and of the database
HandlerSteps == {"hash", "insert", "strip", "catch", "throw"}

\* C26: a request whose password differs from confirmPassword, or whose
\* password is shorter than 8 characters, never reaches CreateUserHandler and
\* never inserts a row: it is waiting for validation or it is over, none of
\* its steps is a step of the handler, nothing was hashed, no statement was
\* sent, and no row of the table is its row.
C26_BadPasswordNeverHandled ==
  \A r \in Requests :
    (pc[r] # "idle" /\ (PasswordsDiffer(r) \/ PasswordTooShort(r))) =>
      /\ pc[r] \in {"received", "done"}
      /\ \A i \in 1..Len(log[r]) : log[r][i] \notin HandlerSteps
      /\ hashedPassword[r] = NoHash
      /\ queryResult[r] = Pending
      /\ ~HasRow(r)
      /\ pc[r] = "done" => response[r].status = UNPROCESSABLE_ENTITY

\* one request of each case was answered with 422 and the table is empty
C26_Witness ==
  /\ pc[1] = "done" /\ pc[2] = "done"
  /\ PasswordsDiffer(1) /\ ~PasswordTooShort(1)
  /\ PasswordTooShort(2) /\ ~PasswordsDiffer(2)
  /\ response[1].status = UNPROCESSABLE_ENTITY
  /\ response[2].status = UNPROCESSABLE_ENTITY
  /\ users = {}

\* createDb was called for the request: it is called when the hash is there
CalledCreateDb(r) == pc[r] # "idle" /\ hashedPassword[r] # NoHash

\* the context of the request has no DATABASE_URL, or an empty one
NoDatabaseUrl(r) ==
  \/ "DATABASE_URL" \notin DOMAIN request[r].env
  \/ request[r].env.DATABASE_URL = ""

ErrorThrown == thrown.err # NoError
BindingOf(c) == IF "env" \in DOMAIN c /\ "NODE_ENV" \in DOMAIN c.env THEN c.env.NODE_ENV ELSE ""
ProcessEnvOf(process) ==
  IF "env" \in DOMAIN process /\ "NODE_ENV" \in DOMAIN process.env THEN process.env.NODE_ENV ELSE ""
InProduction ==
  \/ BindingOf(thrown.c) = "production"
  \/ BindingOf(thrown.c) = "" /\ ProcessEnvOf(thrown.process) = "production"

\* C28: onError answers every error with a response: an HTTPException with
\* its own response; any other error with status 500, the message
\* "Internal Server Error" and the error's message, with a stack field only
\* outside production, and then the error's stack.
C28_OnError ==
  ErrorThrown =>
    /\ handled # NoResponse
    /\ thrown.err.t = "HTTPException" =>
         /\ "res" \in DOMAIN thrown.err => handled = thrown.err.res
         /\ "res" \notin DOMAIN thrown.err =>
              handled = [status |-> thrown.err.status, text |-> thrown.err.message]
    /\ thrown.err.t # "HTTPException" =>
         /\ handled.status = INTERNAL_SERVER_ERROR
         /\ handled.message = "Internal Server Error"
         /\ handled.error = thrown.err.message
         /\ InProduction => "stack" \notin DOMAIN handled
         /\ "stack" \in DOMAIN handled =>
              /\ "stack" \in DOMAIN thrown.err
              /\ handled.stack = thrown.err.stack
         /\ DOMAIN handled \subseteq {"status", "message", "error", "stack"}

\* an error with a stack was answered in production, where only the process
\* environment says so, and the answer has no stack
C28_Witness ==
  /\ ErrorThrown
  /\ thrown.err = ErrorAt("boom", "Error: at CreateUserHandler (users.handlers.ts:22)")
  /\ BindingOf(thrown.c) = ""
  /\ ProcessEnvOf(thrown.process) = "production"
  /\ handled = [ status |-> INTERNAL_SERVER_ERROR, message |-> "Internal Server Error",
                 error |-> "boom" ]

\* the calls of generateBadData made by the last call
Visited == Calls(schema, <<>>)
IsVisited(pos) == \E i \in 1..Len(Visited) : Visited[i] = pos
Parent(pos) == SubSeq(pos, 1, Len(pos) - 1)

\* the schema at a place of the tree
RECURSIVE NodeAt(_, _)
NodeAt(s, pos) ==
  IF pos = <<>> THEN s
  ELSE LET step == Head(pos)
           child == IF step.child = "type" THEN s.type
                    ELSE IF step.child = "innerType" THEN s.innerType
                    ELSE ShapeAt(s.fields, step.key)
       IN NodeAt(child, Tail(pos))

\* the children a node may be left for: an Array's element, the first 3
\* fields of an Object as Object.keys lists them, the inner schema of an
\* Optional or Nullable; no child of any other kind of node
RecursionChildren(node) ==
  CASE node.typeName = "ZodArray" -> {ElementOf}
    [] node.typeName = "ZodObject" ->
         LET keys == ObjectKeys(node.fields)
         IN {FieldOf(keys[i]) : i \in 1..Min(3, Len(keys))}
    [] node.typeName \in {"ZodOptional", "ZodNullable"} -> {InnerOf}
    [] OTHER -> {}

\* the number of schema nodes of a tree, whatever their kind
RECURSIVE TreeSize(_)
RECURSIVE FieldsSize(_, _)
RECURSIVE OptionsSize(_, _)
FieldsSize(fields, i) ==
  IF i > Len(fields) THEN 0 ELSE TreeSize(fields[i].schema) + FieldsSize(fields, i + 1)
OptionsSize(options, i) ==
  IF i > Len(options) THEN 0 ELSE TreeSize(options[i]) + OptionsSize(options, i + 1)
TreeSize(s) ==
  1 + (IF "type" \in DOMAIN s THEN TreeSize(s.type) ELSE 0)
    + (IF "innerType" \in DOMAIN s THEN TreeSize(s.innerType) ELSE 0)
    + (IF "schema" \in DOMAIN s THEN TreeSize(s.schema) ELSE 0)
    + (IF "fields" \in DOMAIN s THEN FieldsSize(s.fields, 1) ELSE 0)
    + (IF "options" \in DOMAIN s THEN OptionsSize(s.options, 1) ELSE 0)

\* C29: generateBadData terminates on every finite schema tree: the call
\* ends with a value or an exception after at most as many calls as the
\* tree has nodes; no place of the tree is called twice; every call but the
\* first is for a child of a called node, and that child is an Array's
\* element, one of the first 3 fields of an Object or the inner schema of an
\* Optional or Nullable; a call that ends with a value has called each of
\* these children.
C29_BoundedRecursion ==
  phase # "idle" =>
    /\ badData = generateBadData(schema, <<>>)
    /\ Visited[1] = <<>>
    /\ Len(Visited) <= TreeSize(schema)
    /\ \A i, j \in 1..Len(Visited) : Visited[i] = Visited[j] => i = j
    /\ \A i \in 2..Len(Visited) :
         /\ IsVisited(Parent(Visited[i]))
         /\ Visited[i][Len(Visited[i])] \in RecursionChildren(NodeAt(schema, Parent(Visited[i])))
    /\ ~IsThrow(badData) =>
         \A i \in 1..Len(Visited) :
           \A c \in RecursionChildren(NodeAt(schema, Visited[i])) :
             IsVisited(Append(Visited[i], c))

\* an object of four fields: the array and the optional among the first
\* three are descended into, the fourth field is not called
C29_Witness ==
  /\ phase # "idle"
  /\ schema = ZodObject(<< Field("tags", ZodArray(ZodString(<<>>))),
                           Field("nick", ZodOptional(ZodString(<<StrMin(1)>>))),
                           Field("email", ZodString(<<Email>>)),
                           Field("age", ZodNumber(<<NumMin(18)>>)) >>)
  /\ Visited = << <<>>, <<FieldOf("tags")>>, <<FieldOf("tags"), ElementOf>>,
                  <<FieldOf("nick")>>, <<FieldOf("nick"), InnerOf>>, <<FieldOf("email")>> >>
  /\ badData.keys = <<"tags", "nick", "email">>

====
